---- MODULE Spec2Model ----
(***************************************************************************)
(* Model of karadHub/AskHire, src/main.py: the suggestion generator        *)
(* (_extract_keywords, generate_suggestions), the two tools and the push   *)
(* notifier, Me.chat with its tool-call loop, and the Streamlit turn       *)
(* handler that drives Me.chat.                                            *)
(*                                                                         *)
(* Texts are sequences of one-character strings; the LLM, the push         *)
(* endpoint and the user are the environment.                              *)
(***************************************************************************)
EXTENDS Integers, Sequences, FiniteSets, TLC

VARIABLES
    model,              \* Me.model: "None" or "GenerativeModel"
    pushover,           \* PUSHOVER_TOKEN and PUSHOVER_USER are both set
    chat_history,       \* st.session_state.chat_history
    pc,                 \* position of the turn handler / of Me.chat
    user_message,       \* Me.chat's first argument
    session,            \* chat_session.history
    request,            \* contents of the last request the LLM received
    response,           \* Me.chat's local `response`
    function_responses, \* Me.chat's local `function_responses`
    result,             \* what Me.chat returned
    rounds,             \* tool-call responses the LLM gave in this turn
    requested,          \* history: calls the LLM's responses asked for in this turn
    dispatched,         \* history: function responses built in this turn
    executed,           \* history: names of the tools invoked in this turn
    llm_calls,          \* history: start_chat/send_message calls in this turn
    followups,          \* history: follow-up messages sent in this turn
    pushes,             \* history: requests.post attempts in this turn
    first_request,      \* history: the request of the turn's first send
    returned_of,        \* history: the response whose text was returned
    st_errors,          \* history: st.error notices raised by Me.chat
    sug_user,           \* generate_suggestions: user_message
    sug_response,       \* generate_suggestions: response_text
    sug_max,            \* generate_suggestions: max_suggestions
    sug_out,            \* generate_suggestions: the returned list
    sug_pc              \* "input" or "done"

chatVars == <<model, pushover, chat_history, pc, user_message, session, request,
              response, function_responses, result, rounds, requested, dispatched, executed,
              llm_calls, followups, pushes, first_request, returned_of, st_errors>>
sugVars == <<sug_user, sug_response, sug_max, sug_out, sug_pc>>
vars == <<chatVars, sugVars>>

(***************************************************************************)
(* Bounds of the model.                                                    *)
(***************************************************************************)
MaxHistory == 3      \* a user input is accepted while the history is shorter
MaxRounds == 2       \* tool-call responses the LLM may give in one turn
MaxUserWords == 2    \* words of a generated user_message
MaxRespWords == 1    \* words of a generated response_text
MaxSuggestions == 5  \* largest max_suggestions tried
NegSuggestions == 1  \* max_suggestions is tried down to -NegSuggestions

(***************************************************************************)
(* The LLM API boundary: parts, function calls, contents.                  *)
(***************************************************************************)
NoArgs == <<>>
NoCall == [name |-> "", args |-> NoArgs]
NoFunctionResponse == [name |-> "", response |-> [result |-> ""]]
NoResponse == <<>>

TextPart(t) == [text |-> t, function_call |-> NoCall,
                function_response |-> NoFunctionResponse]
CallPart(fc) == [text |-> "", function_call |-> fc,
                 function_response |-> NoFunctionResponse]
\* genai.Part(function_response=genai.protos.FunctionResponse(name=..., response=...))
FunctionResponsePart(name, resp) ==
    [text |-> "", function_call |-> NoCall,
     function_response |-> [name |-> name, response |-> resp]]

\* Truth value of part.function_call: a message with no field set is falsy.
IsSet(fc) == fc.name # "" \/ DOMAIN fc.args # {}

\* The function calls the scripted LLM may request.
FC_details == [name |-> "record_user_details",
               args |-> ("email" :> "e1" @@ "name" :> "n1")]
FC_details_no_email == [name |-> "record_user_details", args |-> ("name" :> "n1")]
FC_question == [name |-> "record_unknown_question", args |-> ("question" :> "q1")]
FC_question_extra == [name |-> "record_unknown_question",
                      args |-> ("question" :> "q1" @@ "priority" :> "high")]
FC_unknown == [name |-> "send_email", args |-> NoArgs]

\* The responses the scripted LLM may give: a sequence of parts each.
TextResponses == { <<>>, <<TextPart("t2")>> }
CallResponses ==
    { <<TextPart("t1"), CallPart(FC_question)>>,
      <<CallPart(FC_unknown), CallPart(FC_question)>>,
      <<CallPart(FC_details_no_email), CallPart(FC_question_extra)>>,
      <<CallPart(FC_details), CallPart(FC_details)>> }
Responses == TextResponses \cup CallResponses

UserInputs == {"u1", "u2"}

(***************************************************************************)
(* Tools and the notifier.                                                 *)
(***************************************************************************)
\* push: requests.post is attempted only with both credentials; a
\* RequestException is swallowed, so push never raises.
push(creds) == IF creds THEN 1 ELSE 0

ArgOr(args, key, default) == IF key \in DOMAIN args THEN args[key] ELSE default

\* Variant of BindError: a missing required argument goes unnoticed.
BindError_lenient(fname, args, required, optional) ==
    IF \E k \in DOMAIN args : k \notin (required \cup optional)
    THEN fname \o "() got an unexpected keyword argument '"
         \o (CHOOSE k \in DOMAIN args : k \notin (required \cup optional)) \o "'"
    ELSE ""

\* Python's binding of **args to a signature: an unexpected keyword is
\* reported first, then a missing required argument; "" when the call binds.
BindError(fname, args, required, optional) ==
    IF \E k \in DOMAIN args : k \notin (required \cup optional)
    THEN fname \o "() got an unexpected keyword argument '"
         \o (CHOOSE k \in DOMAIN args : k \notin (required \cup optional)) \o "'"
    ELSE IF \E k \in required : k \notin DOMAIN args
    THEN fname \o "() missing 1 required positional argument: '"
         \o (CHOOSE k \in required : k \notin DOMAIN args) \o "'"
    ELSE ""

\* A tool's outcome: raised (with str(e)), or its result and the pushes made.
record_user_details(args, creds) ==
    LET err == BindError("record_user_details", args, {"email"}, {"name", "notes"})
    IN  IF err # ""
        THEN [raised |-> TRUE, error |-> err, pushes |-> 0,
              result |-> [status |-> "", message |-> ""]]
        ELSE [raised |-> FALSE, error |-> "", pushes |-> push(creds),
              result |-> [status |-> "success",
                          message |-> "Details for "
                                      \o ArgOr(args, "name", "Name not provided")
                                      \o " recorded."]]

record_unknown_question(args, creds) ==
    LET err == BindError("record_unknown_question", args, {"question"}, {})
    IN  IF err # ""
        THEN [raised |-> TRUE, error |-> err, pushes |-> 0,
              result |-> [status |-> "", message |-> ""]]
        ELSE [raised |-> FALSE, error |-> "", pushes |-> push(creds),
              result |-> [status |-> "success",
                          message |-> "Question has been recorded for review."]]

\* Me.tools
tools == {"record_user_details", "record_unknown_question"}
tool_function(name, args, creds) ==
    IF name = "record_user_details" THEN record_user_details(args, creds)
    ELSE record_unknown_question(args, creds)

\* json.dumps of a {status, message} result
JsonDumps(r) ==
    "{\"status\": \"" \o r.status \o "\", \"message\": \"" \o r.message \o "\"}"

(***************************************************************************)
(* Me.chat: the body of the loop over function_calls.                      *)
(***************************************************************************)
\* Variant of CallOutcome: no lookup of the name, every call is invoked.
CallOutcome_no_lookup(fc, creds) ==
    LET out == tool_function(fc.name, fc.args, creds)
    IN  IF out.raised
        THEN [result |-> [status |-> "error",
                          message |-> "Error in " \o fc.name \o ": " \o out.error],
              invoked |-> TRUE, pushes |-> 0]
        ELSE [result |-> out.result, invoked |-> TRUE, pushes |-> out.pushes]

\* Lines 223-238: the result of one requested call, whether a tool was invoked
\* for it, and the pushes it made.
CallOutcome(fc, creds) ==
    IF fc.name \notin tools
    THEN [result |-> [status |-> "error",
                      message |-> "Unknown function: " \o fc.name],
          invoked |-> FALSE, pushes |-> 0]
    ELSE LET out == tool_function(fc.name, fc.args, creds)
         IN  IF out.raised
             THEN [result |-> [status |-> "error",
                               message |-> "Error in " \o fc.name \o ": " \o out.error],
                   invoked |-> TRUE, pushes |-> 0]
             ELSE [result |-> out.result, invoked |-> TRUE, pushes |-> out.pushes]

\* Lines 241-248: the part appended to function_responses.
ResponsePartOf(fc, creds) ==
    FunctionResponsePart(fc.name, [result |-> JsonDumps(CallOutcome(fc, creds).result)])

\* The calls a response of the LLM asks for, in the order of its parts.
RECURSIVE CallParts(_)
CallParts(resp) ==
    IF resp = <<>> THEN <<>>
    ELSE IF Head(resp).function_call.name # ""
         THEN <<Head(resp).function_call>> \o CallParts(Tail(resp))
         ELSE CallParts(Tail(resp))

\* Variant of FunctionCalls: only the first call of a response is taken.
RECURSIVE FunctionCalls_first_only(_)
FunctionCalls_first_only(parts) ==
    IF parts = <<>> THEN <<>>
    ELSE IF IsSet(Head(parts).function_call)
         THEN <<Head(parts).function_call>>
         ELSE FunctionCalls_first_only(Tail(parts))

\* Line 217: [part.function_call for part in response.parts if part.function_call]
RECURSIVE FunctionCalls(_)
FunctionCalls(parts) ==
    IF parts = <<>> THEN <<>>
    ELSE IF IsSet(Head(parts).function_call)
         THEN <<Head(parts).function_call>> \o FunctionCalls(Tail(parts))
         ELSE FunctionCalls(Tail(parts))

\* Variant of HasFunctionCall: all(...) in place of any(...).
HasFunctionCall_all(resp) ==
    Len(resp) > 0 /\ \A i \in 1..Len(resp) : IsSet(resp[i].function_call)

\* Line 215: response.parts and any(part.function_call for part in response.parts)
HasFunctionCall(resp) ==
    Len(resp) > 0 /\ \E i \in 1..Len(resp) : IsSet(resp[i].function_call)

\* Lines 222-248 over all the calls, in order.
FunctionResponses(calls, creds) ==
    [i \in 1..Len(calls) |-> ResponsePartOf(calls[i], creds)]

RECURSIVE InvokedNames(_)
InvokedNames(calls) ==
    IF calls = <<>> THEN <<>>
    ELSE IF Head(calls).name \in tools
         THEN <<Head(calls).name>> \o InvokedNames(Tail(calls))
         ELSE InvokedNames(Tail(calls))

RECURSIVE PushCount(_, _)
PushCount(calls, creds) ==
    IF calls = <<>> THEN 0
    ELSE CallOutcome(Head(calls), creds).pushes + PushCount(Tail(calls), creds)

\* response.text: the text parts joined; raises when there is no part.
RECURSIVE JoinText(_)
JoinText(parts) ==
    IF parts = <<>> THEN "" ELSE Head(parts).text \o JoinText(Tail(parts))
TextRaises(resp) == Len(resp) = 0
Text(resp) == JoinText(resp)

NotConfiguredMsg == "The AI model is not configured. Please check your API key."
ApologyMsg == "Sorry, I encountered an error. Please try again."

(***************************************************************************)
(* ChatSession of the client library, as Me.chat uses it.                  *)
(***************************************************************************)
\* start_chat(history=...): each {"role", "parts": [str]} becomes a content.
ToContent(turn) ==
    [role |-> turn.role,
     parts |-> [i \in 1..Len(turn.parts) |-> TextPart(turn.parts[i])]]
ToContents(history) == [i \in 1..Len(history) |-> ToContent(history[i])]

UserContent(msg) == [role |-> "user", parts |-> <<TextPart(msg)>>]
ToolContent(parts) == [role |-> "user", parts |-> parts]
ModelContent(resp) == [role |-> "model", parts |-> resp]

UserTurn(msg) == [role |-> "user", parts |-> <<msg>>]
ModelTurn(text) == [role |-> "model", parts |-> <<text>>]

(***************************************************************************)
(* Me.__init__ (cached by init_chatbot) and the initial session state.     *)
(***************************************************************************)
\* Lines 129-134 and 153: the model is left None without the library or the key.
MeInit(has_gemini, gemini_key) ==
    IF ~has_gemini \/ ~gemini_key THEN "None" ELSE "GenerativeModel"

TurnReset ==
    /\ session' = <<>>
    /\ request' = <<>>
    /\ response' = NoResponse
    /\ function_responses' = <<>>
    /\ result' = ""
    /\ rounds' = 0
    /\ requested' = <<>>
    /\ dispatched' = <<>>
    /\ executed' = <<>>
    /\ llm_calls' = 0
    /\ followups' = 0
    /\ pushes' = 0
    /\ first_request' = <<>>
    /\ returned_of' = NoResponse
    /\ st_errors' = 0

SugIdle ==
    /\ sug_user = <<>>
    /\ sug_response = <<>>
    /\ sug_max = 0
    /\ sug_out = <<>>
    /\ sug_pc = "off"

ChatFresh ==
    /\ chat_history = <<>>
    /\ pc = "idle"
    /\ user_message = ""
    /\ session = <<>>
    /\ request = <<>>
    /\ response = NoResponse
    /\ function_responses = <<>>
    /\ result = ""
    /\ rounds = 0
    /\ requested = <<>>
    /\ dispatched = <<>>
    /\ executed = <<>>
    /\ llm_calls = 0
    /\ followups = 0
    /\ pushes = 0
    /\ first_request = <<>>
    /\ returned_of = NoResponse
    /\ st_errors = 0

Init ==
    /\ \E has_gemini \in BOOLEAN, gemini_key \in BOOLEAN :
           model = MeInit(has_gemini, gemini_key)
    /\ pushover \in BOOLEAN
    /\ ChatFresh
    /\ SugIdle

(***************************************************************************)
(* The Streamlit turn handler (lines 289-304) and Me.chat (lines 199-258). *)
(***************************************************************************)
\* Lines 289-298: the user turn is appended, then me.chat is called with the
\* session's own list.
UserInput(u) ==
    /\ pc = "idle"
    /\ Len(chat_history) < MaxHistory
    /\ chat_history' = Append(chat_history, UserTurn(u))
    /\ user_message' = u
    /\ pc' = "chat"
    /\ TurnReset
    /\ UNCHANGED <<model, pushover, sugVars>>

\* Variant of ModelMissing: the check of self.model is skipped.
ModelMissing_never == FALSE

\* Line 201: `if not self.model`
ModelMissing == model = "None"

\* Lines 201-202
ChatNotConfigured ==
    /\ pc = "chat"
    /\ ModelMissing
    /\ result' = NotConfiguredMsg
    /\ pc' = "returned"
    /\ UNCHANGED <<model, pushover, chat_history, user_message, session, request,
                   response, function_responses, rounds, requested,
                   dispatched, executed, llm_calls, followups, pushes,
                   first_request, returned_of, st_errors, sugVars>>

\* The history start_chat is given: the `chat_history` argument.
HistoryArgument == chat_history

\* Line 205, outside the try: the session is opened with the history, or
\* start_chat raises and the exception leaves Me.chat.
StartChat ==
    /\ pc = "chat"
    /\ ~ModelMissing
    /\ \/ /\ session' = ToContents(HistoryArgument)
          /\ pc' = "send"
       \/ /\ pc' = "raised"
          /\ UNCHANGED session
    /\ UNCHANGED <<model, pushover, chat_history, user_message, request, response,
                   function_responses, result, rounds, requested,
                   dispatched, executed, llm_calls, followups, pushes,
                   first_request, returned_of, st_errors, sugVars>>

\* Lines 256-258: the except clause of Me.chat.
ExceptHandler ==
    /\ st_errors' = st_errors + 1
    /\ result' = ApologyMsg
    /\ pc' = "returned"

\* chat_session.send_message(content): the LLM receives the session's history
\* and the new content; it answers with a response, which the session records,
\* or the call raises and Me.chat's except clause runs.
Send(content) ==
    /\ request' = Append(session, content)
    /\ llm_calls' = llm_calls + 1
    /\ \/ \E r \in Responses :
            /\ HasFunctionCall(r) => rounds < MaxRounds
            /\ response' = r
            /\ rounds' = IF HasFunctionCall(r) THEN rounds + 1 ELSE rounds
            /\ session' = Append(Append(session, content), ModelContent(r))
            /\ requested' = requested \o CallParts(r)
            /\ pc' = "loop"
            /\ UNCHANGED <<result, st_errors>>
       \/ /\ ExceptHandler
          /\ UNCHANGED <<response, rounds, session, requested>>

\* Line 209
SendMessage ==
    /\ pc = "send"
    /\ Send(UserContent(user_message))
    /\ first_request' = request'
    /\ UNCHANGED <<model, pushover, chat_history, user_message, function_responses,
                   dispatched, executed, followups, pushes,
                   returned_of, sugVars>>

\* Lines 215-248: the loop condition holds; every requested call is answered.
ToolCalls ==
    /\ pc = "loop"
    /\ HasFunctionCall(response)
    /\ LET function_calls == FunctionCalls(response)
       IN  /\ function_responses' = FunctionResponses(function_calls, pushover)
           /\ dispatched' = dispatched \o FunctionResponses(function_calls, pushover)
           /\ executed' = executed \o InvokedNames(function_calls)
           /\ pushes' = pushes + PushCount(function_calls, pushover)
    /\ pc' = "followup"
    /\ UNCHANGED <<model, pushover, chat_history, user_message, session, request,
                   response, result, rounds, requested, llm_calls, followups,
                   first_request, returned_of, st_errors, sugVars>>

\* Line 251
FollowUp ==
    /\ pc = "followup"
    /\ Send(ToolContent(function_responses))
    /\ followups' = followups + 1
    /\ UNCHANGED <<model, pushover, chat_history, user_message, function_responses,
                   dispatched, executed, pushes, first_request,
                   returned_of, sugVars>>

\* Lines 215 and 254: the loop condition fails; response.text is returned, or
\* reading it raises and the except clause runs.
ReturnText ==
    /\ pc = "loop"
    /\ ~HasFunctionCall(response)
    /\ \/ /\ ~TextRaises(response)
          /\ result' = Text(response)
          /\ returned_of' = response
          /\ pc' = "returned"
          /\ UNCHANGED st_errors
       \/ /\ TextRaises(response)
          /\ ExceptHandler
          /\ UNCHANGED returned_of
    /\ UNCHANGED <<model, pushover, chat_history, user_message, session, request,
                   response, function_responses, rounds, requested,
                   dispatched, executed, llm_calls, followups, pushes,
                   first_request, sugVars>>

\* Lines 301-304: the reply is displayed and appended to the history.
AppendReply ==
    /\ pc = "returned"
    /\ chat_history' = Append(chat_history, ModelTurn(result))
    /\ pc' = "idle"
    /\ UNCHANGED <<model, pushover, user_message, session, request, response,
                   function_responses, result, rounds, requested,
                   dispatched, executed, llm_calls, followups, pushes,
                   first_request, returned_of, st_errors, sugVars>>

\* An exception that leaves Me.chat ends the script run: lines 301-304 are
\* skipped and the session waits for the next input.
ScriptAborted ==
    /\ pc = "raised"
    /\ pc' = "idle"
    /\ UNCHANGED <<model, pushover, chat_history, user_message, session, request,
                   response, function_responses, result, rounds, requested,
                   dispatched, executed, llm_calls, followups, pushes,
                   first_request, returned_of, st_errors, sugVars>>

ChatStep ==
    \/ ChatNotConfigured
    \/ StartChat
    \/ SendMessage
    \/ ToolCalls
    \/ FollowUp
    \/ ReturnText
    \/ AppendReply
    \/ ScriptAborted

Next ==
    \/ \E u \in UserInputs : UserInput(u)
    \/ ChatStep

Spec == Init /\ [][Next]_vars

\* The calls into the LLM block until they return or raise, and the script
\* runs to its end: every step of a turn is taken once it is enabled.
FairSpec == Spec /\ WF_vars(ChatStep)

(***************************************************************************)
(* Suggestion generator: characters and words.                             *)
(***************************************************************************)
LowerChars == <<"a", "b", "c", "d", "e", "f", "g", "h", "i", "j", "k", "l", "m", "n", "o", "p", "q", "r", "s", "t", "u", "v", "w", "x", "y", "z">>
UpperChars == <<"A", "B", "C", "D", "E", "F", "G", "H", "I", "J", "K", "L", "M", "N", "O", "P", "Q", "R", "S", "T", "U", "V", "W", "X", "Y", "Z">>
DigitChars == {"0", "1", "2", "3", "4", "5", "6", "7", "8", "9"}

Range(f) == { f[i] : i \in DOMAIN f }
IndexIn(seq, c) == CHOOSE i \in DOMAIN seq : seq[i] = c

LowerSet == Range(LowerChars)
UpperSet == Range(UpperChars)

\* [a-zA-Z]
IsLetter(c) == c \in LowerSet \/ c \in UpperSet
\* \w of the re module, over the characters of the model
IsWordChar(c) == IsLetter(c) \/ c \in DigitChars \/ c = "_"

\* str.lower of one character, and of a word
LowerChar(c) == IF c \in UpperSet THEN LowerChars[IndexIn(UpperChars, c)] ELSE c
Lower(w) == [i \in 1..Len(w) |-> LowerChar(w[i])]

\* Code point order of two lower-case letters
CharBefore(a, b) == IndexIn(LowerChars, a) < IndexIn(LowerChars, b)

\* Python's str `<`: the first differing character decides, a proper prefix
\* comes first.
RECURSIVE StrLess(_, _)
StrLess(a, b) ==
    IF b = <<>> THEN FALSE
    ELSE IF a = <<>> THEN TRUE
    ELSE IF Head(a) = Head(b) THEN StrLess(Tail(a), Tail(b))
    ELSE CharBefore(Head(a), Head(b))

STOPWORDS ==
    { <<"t", "h", "e">>,
      <<"a", "n", "d">>,
      <<"f", "o", "r">>,
      <<"w", "i", "t", "h">>,
      <<"t", "h", "a", "t">>,
      <<"t", "h", "i", "s">>,
      <<"f", "r", "o", "m">>,
      <<"a", "b", "o", "u", "t">>,
      <<"h", "a", "v", "e">>,
      <<"y", "o", "u", "r">>,
      <<"y", "o", "u">>,
      <<"a", "r", "e">>,
      <<"w", "a", "s">>,
      <<"b", "u", "t">>,
      <<"n", "o", "t">>,
      <<"c", "a", "n">>,
      <<"w", "i", "l", "l">>,
      <<"t", "h", "e", "y">>,
      <<"t", "h", "e", "i", "r">> }

\* {4,} of the pattern
MinWordLen == 4

(***************************************************************************)
(* re.findall(r"\b[a-zA-Z]{4,}\b", text)                                   *)
(***************************************************************************)
\* \b before position i (1..Len+1): exactly one side is a word character.
IsBoundary(text, i) ==
    LET before == i > 1 /\ IsWordChar(text[i - 1])
        after == i <= Len(text) /\ IsWordChar(text[i])
    IN  before # after

\* The position after the longest run of letters that starts at i.
RECURSIVE LetterRunEnd(_, _)
LetterRunEnd(text, i) ==
    IF i <= Len(text) /\ IsLetter(text[i]) THEN LetterRunEnd(text, i + 1) ELSE i

\* The end (exclusive) of the match that starts at i, 0 when there is none:
\* the greedy run, backtracked to the last end that is a \b and leaves at
\* least MinWordLen letters.
MatchEnd(text, i) ==
    IF ~IsBoundary(text, i) THEN 0
    ELSE LET j == LetterRunEnd(text, i)
             ends == { e \in (i + MinWordLen)..j : IsBoundary(text, e) }
         IN  IF ends = {} THEN 0
             ELSE CHOOSE e \in ends : \A f \in ends : f <= e

\* The matches, left to right, not overlapping.
RECURSIVE FindAllFrom(_, _)
FindAllFrom(text, i) ==
    IF i > Len(text) THEN <<>>
    ELSE LET e == MatchEnd(text, i)
         IN  IF e = 0 THEN FindAllFrom(text, i + 1)
             ELSE <<SubSeq(text, i, e - 1)>> \o FindAllFrom(text, e)
FindAll(text) == FindAllFrom(text, 1)

(***************************************************************************)
(* _extract_keywords                                                       *)
(***************************************************************************)
\* Line 46: the matches, lower-cased
Words(text) == LET found == FindAll(text) IN [i \in 1..Len(found) |-> Lower(found[i])]

\* Lines 47-51: the frequency of every word that is no stopword
CountOf(words, w) == Cardinality({ i \in 1..Len(words) : words[i] = w })
FreqKeys(words) == { w \in Range(words) : w \notin STOPWORDS }
Freq(words) == [w \in FreqKeys(words) |-> CountOf(words, w)]

\* Variant of KeyLess: ties are broken in descending alphabetical order.
KeyLess_reverse_alpha(freq, a, b) ==
    \/ 0 - freq[a] < 0 - freq[b]
    \/ freq[a] = freq[b] /\ StrLess(b, a)

\* Line 52: the order of the sort key (-count, word)
KeyLess(freq, a, b) ==
    \/ 0 - freq[a] < 0 - freq[b]
    \/ freq[a] = freq[b] /\ StrLess(a, b)

\* Line 52: sorted(freq.items(), key=...), the words of the items
RECURSIVE SortedKeys(_, _)
SortedKeys(freq, keys) ==
    IF keys = {} THEN <<>>
    ELSE LET first == CHOOSE a \in keys : \A b \in keys \ {a} : KeyLess(freq, a, b)
         IN  <<first>> \o SortedKeys(freq, keys \ {first})

\* Python's seq[:n]: n >= 0 keeps the first n items, n < 0 drops the last -n.
SliceTo(seq, n) ==
    IF n >= 0 THEN SubSeq(seq, 1, IF n < Len(seq) THEN n ELSE Len(seq))
    ELSE SubSeq(seq, 1, Len(seq) + n)

\* Lines 42-53
extract_keywords(text, top_n) ==
    IF text = <<>> THEN <<>>
    ELSE LET freq == Freq(Words(text))
         IN  SliceTo(SortedKeys(freq, DOMAIN freq), top_n)

(***************************************************************************)
(* generate_suggestions                                                    *)
(***************************************************************************)
\* Line 68: f"Can you tell me more about {k}?"
Template(k) == <<"Can you tell me more about ">> \o k \o <<"?">>

\* Lines 73-77
generic == << <<"How did you achieve that?">>,
              <<"What tools or technologies were used?">>,
              <<"Can you share a brief example or outcome?">> >>

\* Variant of Keywords: the response text is tried first.
Keywords_response_first(user, resp, max_suggestions) ==
    LET kws == extract_keywords(resp, max_suggestions)
    IN  IF kws = <<>> THEN extract_keywords(user, max_suggestions) ELSE kws

\* Lines 62-64: the keywords used
Keywords(user, resp, max_suggestions) ==
    LET kws == extract_keywords(user, max_suggestions)
    IN  IF kws = <<>> THEN extract_keywords(resp, max_suggestions) ELSE kws

\* Lines 67-70: append, then break once the list is long enough
RECURSIVE KeywordLoop(_, _, _)
KeywordLoop(kws, suggestions, max_suggestions) ==
    IF kws = <<>> THEN suggestions
    ELSE LET appended == Append(suggestions, Template(Head(kws)))
         IN  IF Len(appended) >= max_suggestions THEN appended
             ELSE KeywordLoop(Tail(kws), appended, max_suggestions)

\* Variant of GenericLoop: the quota is not checked.
RECURSIVE GenericLoop_unbounded(_, _, _)
GenericLoop_unbounded(suggestions, i, max_suggestions) ==
    IF i < Len(generic)
    THEN GenericLoop_unbounded(Append(suggestions, generic[i + 1]), i + 1,
                               max_suggestions)
    ELSE suggestions

\* Lines 78-81
RECURSIVE GenericLoop(_, _, _)
GenericLoop(suggestions, i, max_suggestions) ==
    IF Len(suggestions) < max_suggestions /\ i < Len(generic)
    THEN GenericLoop(Append(suggestions, generic[i + 1]), i + 1, max_suggestions)
    ELSE suggestions

\* Lines 55-83
generate_suggestions(user, resp, max_suggestions) ==
    GenericLoop(KeywordLoop(Keywords(user, resp, max_suggestions), <<>>,
                            max_suggestions),
                0, max_suggestions)

(***************************************************************************)
(* generate_suggestions as a state machine over bounded inputs.            *)
(***************************************************************************)
UserWords == { <<"R", "u", "s", "t", ",">>,
               <<"r", "u", "s", "t">>,
               <<"G", "o">>,
               <<"j", "a", "v", "a">>,
               <<"t", "h", "a", "t">>,
               <<"j", "a", "v", "a", "8">> }
RespWords == { <<"p", "e", "r", "l">>,
               <<"r", "u", "s", "t">> }

\* " ".join(words)
RECURSIVE Join(_)
Join(ws) ==
    IF ws = <<>> THEN <<>>
    ELSE IF Len(ws) = 1 THEN Head(ws)
    ELSE Head(ws) \o <<" ">> \o Join(Tail(ws))

TextsOf(words, n) == UNION { { Join(ws) : ws \in [1..k -> words] } : k \in 0..n }

\* "Rust rust Go go"
ExampleText == <<"R", "u", "s", "t", " ", "r", "u", "s", "t", " ", "G", "o", " ", "g", "o">>

\* "that this from about"
StopwordText == <<"t", "h", "a", "t", " ", "t", "h", "i", "s", " ", "f", "r", "o", "m", " ", "a", "b", "o", "u", "t">>

UserTexts == TextsOf(UserWords, MaxUserWords) \cup {ExampleText, StopwordText}
RespTexts == TextsOf(RespWords, MaxRespWords)
MaxValues == (0 - NegSuggestions)..MaxSuggestions

InitSuggest ==
    /\ sug_user \in UserTexts
    /\ sug_response \in RespTexts
    /\ sug_max \in MaxValues
    /\ sug_out = <<>>
    /\ sug_pc = "input"
    /\ model = "None"
    /\ pushover = FALSE
    /\ ChatFresh

GenerateSuggestions ==
    /\ sug_pc = "input"
    /\ sug_out' = generate_suggestions(sug_user, sug_response, sug_max)
    /\ sug_pc' = "done"
    /\ UNCHANGED <<sug_user, sug_response, sug_max, chatVars>>

NextSuggest == GenerateSuggestions

SpecSuggest == InitSuggest /\ [][NextSuggest]_vars

(***************************************************************************)
(* Properties of Me.chat and of the turn handler.                          *)
(***************************************************************************)
Registered == {"record_user_details", "record_unknown_question"}
Last(seq) == seq[Len(seq)]
ErrorJson(msg) == "{\"status\": \"error\", \"message\": \"" \o msg \o "\"}"
ConfiguredReturn == pc = "returned" /\ model # "None" /\ st_errors = 0

RECURSIVE RegisteredNames(_)
RegisteredNames(calls) ==
    IF calls = <<>> THEN <<>>
    ELSE IF Head(calls).name \in Registered
         THEN <<Head(calls).name>> \o RegisteredNames(Tail(calls))
         ELSE RegisteredNames(Tail(calls))

\* The last follow-up message carried exactly the function responses of its
\* round (in "followup" the responses of the next round wait to be sent).
FollowUpCarriesResponses ==
    (followups > 0 /\ pc # "followup") =>
        /\ Len(request) - 1 <= Len(session)
        /\ Last(request) = [role |-> "user", parts |-> function_responses]

\* C1: when the LLM answers k times with tool calls and then with text only,
\* and no call into the LLM fails, Me.chat answers every requested call once
\* and in request order, invokes each registered tool once, sends exactly k
\* follow-up messages (k + 1 messages in all) and returns the text of the
\* last response.
C1_ScriptedToolLoop ==
    ConfiguredReturn =>
        /\ Len(dispatched) = Len(requested)
        /\ \A i \in 1..Len(requested) :
               dispatched[i].function_response.name = requested[i].name
        /\ executed = RegisteredNames(requested)
        /\ followups = rounds
        /\ llm_calls = rounds + 1
        /\ Len(response) = 1
        /\ response[1].function_call = NoCall
        /\ result = response[1].text

C1_Witness ==
    /\ ConfiguredReturn
    /\ rounds = 2
    /\ Len(requested) = 3
    /\ result = "t2"

\* C2: with no model configured, every call of Me.chat returns the fixed
\* message and makes no LLM call, no tool execution and no notification,
\* whatever the message and the history.
C2_NotConfigured ==
    model = "None" =>
        /\ pc \in {"idle", "chat", "returned"}
        /\ llm_calls = 0
        /\ session = <<>>
        /\ request = <<>>
        /\ executed = <<>>
        /\ dispatched = <<>>
        /\ pushes = 0
        /\ st_errors = 0
        /\ pc = "returned" =>
               result = "The AI model is not configured. Please check your API key."

C2_Witness ==
    /\ model = "None"
    /\ pc = "returned"
    /\ Len(chat_history) = 3
    /\ chat_history[1].parts # chat_history[3].parts

\* C3: a requested call whose name is not registered is answered with
\* {status: error, message: "Unknown function: <name>"} under that name, no
\* tool is invoked for it, the other calls of the response are still
\* answered, and the turn goes on to the follow-up message without raising.
C3_UnknownFunction ==
    /\ Len(dispatched) <= Len(requested)
    /\ \A i \in 1..Len(dispatched) :
           requested[i].name \notin Registered =>
               dispatched[i] =
                   [text |-> "", function_call |-> NoCall,
                    function_response |->
                        [name |-> requested[i].name,
                         response |-> [result |-> ErrorJson("Unknown function: "
                                                            \o requested[i].name)]]]
    /\ Len(executed) =
           Cardinality({ i \in 1..Len(dispatched) : requested[i].name \in Registered })
    /\ \A i \in 1..Len(executed) : executed[i] \in Registered
    /\ pc = "followup" =>
           /\ Len(dispatched) = Len(requested)
           /\ Len(function_responses) = Len(CallParts(response))
           /\ function_responses =
                  SubSeq(dispatched, Len(dispatched) - Len(function_responses) + 1,
                         Len(dispatched))
    /\ FollowUpCarriesResponses
    /\ pc = "raised" => llm_calls = 0

C3_Witness ==
    /\ ConfiguredReturn
    /\ result = "t2"
    /\ \E i \in 1..Len(dispatched) :
           /\ requested[i].name = "send_email"
           /\ dispatched[i].function_response.name = "send_email"

\* Whether the arguments of a call fit the signature of the tool it names.
Fits(fc) ==
    IF fc.name = "record_user_details"
    THEN "email" \in DOMAIN fc.args /\ DOMAIN fc.args \subseteq {"email", "name", "notes"}
    ELSE DOMAIN fc.args = {"question"}

ArgumentNames == {"email", "name", "notes", "question", "priority"}
TypeErrors(fname) ==
    { fname \o "() missing 1 required positional argument: '" \o k \o "'" :
        k \in ArgumentNames }
    \cup { fname \o "() got an unexpected keyword argument '" \o k \o "'" :
             k \in ArgumentNames }

\* C4: a registered tool that raises on the arguments the LLM supplied (a
\* missing required argument, an unexpected one) is answered with {status:
\* error, message: "Error in <name>: <details>"}; nothing is pushed for it,
\* the exception does not leave Me.chat, the result goes back to the LLM with
\* the others, and the turn ends with a returned string.
C4_ToolRaises ==
    /\ Len(dispatched) <= Len(requested)
    /\ \A i \in 1..Len(dispatched) :
           (requested[i].name \in Registered /\ ~Fits(requested[i])) =>
               /\ dispatched[i].function_response.name = requested[i].name
               /\ dispatched[i].function_response.response.result \in
                      { ErrorJson("Error in " \o requested[i].name \o ": " \o d) :
                          d \in TypeErrors(requested[i].name) }
    /\ pushes = IF pushover
                THEN Cardinality({ i \in 1..Len(dispatched) :
                                     requested[i].name \in Registered
                                     /\ Fits(requested[i]) })
                ELSE 0
    /\ FollowUpCarriesResponses
    /\ pc = "raised" => llm_calls = 0
    /\ (pc = "returned" /\ dispatched # <<>>) =>
           result \in {"t2", "Sorry, I encountered an error. Please try again."}

C4_Witness ==
    /\ ConfiguredReturn
    /\ result = "t2"
    /\ \E i \in 1..Len(dispatched) : requested[i] = FC_details_no_email
    /\ \E i \in 1..Len(dispatched) : requested[i] = FC_question_extra

\* C5: with a configured model, every failure of an LLM interaction of the
\* turn, the opening of the chat session included, is caught inside Me.chat,
\* which returns the apology; Me.chat never raises to its caller.
C5_EveryFailureCaught ==
    /\ pc # "raised"
    /\ (pc = "returned" /\ model # "None" /\ st_errors > 0) =>
           result = "Sorry, I encountered an error. Please try again."

\* C7: the conversation the LLM receives with the first message of a turn is
\* the history of the turns before the current user message, followed by the
\* current user message exactly once.
C7_MessageOnce ==
    (pc \in {"loop", "followup", "returned"} /\ first_request # <<>>) =>
        first_request =
            Append(ToContents(SubSeq(chat_history, 1, Len(chat_history) - 1)),
                   UserContent(user_message))

\* A response holds a tool-call part.
HasCallPart(resp) == \E i \in 1..Len(resp) : resp[i].function_call.name # ""

\* C10: the loop goes on exactly while the current response holds a tool-call
\* part, a response that mixes text and tool calls included, whatever the
\* number of rounds so far; Me.chat never returns the text of a response
\* that holds a tool-call part; and once the response holds none, Me.chat
\* returns.
C10_LoopEnds ==
    /\ [][(pc = "loop" /\ HasCallPart(response)) =>
              (pc' = "followup" /\ result' = result)]_vars
    /\ [][(pc = "loop" /\ ~HasCallPart(response)) => pc' = "returned"]_vars
    /\ [](~HasCallPart(returned_of))
    /\ [](ConfiguredReturn => returned_of = response)
    /\ ((pc = "loop" /\ HasCallPart(response)) ~> (pc = "followup"))
    /\ ((pc = "loop" /\ ~HasCallPart(response)) ~> (pc = "returned"))

C10_Witness ==
    /\ pc = "followup"
    /\ rounds = MaxRounds
    /\ response = <<TextPart("t1"), CallPart(FC_question)>>

(***************************************************************************)
(* Properties of the suggestion generator.                                 *)
(***************************************************************************)
\* The tokens of a text that survive the filters, and how often each occurs.
Survivors(text) == FreqKeys(Words(text))
Occurrences(text, w) == CountOf(Words(text), w)
Min(a, b) == IF a < b THEN a ELSE b

\* The keywords the returned suggestions ask about.
KeywordPrefix == "Can you tell me more about "
KeywordsOut ==
    { SubSeq(sug_out[i], 2, Len(sug_out[i]) - 1) :
        i \in { j \in 1..Len(sug_out) : sug_out[j][1] = KeywordPrefix } }

GenericPrompts == << <<"How did you achieve that?">>,
                     <<"What tools or technologies were used?">>,
                     <<"Can you share a brief example or outcome?">> >>

\* The text whose keywords the result is built from.
UsedText == IF Survivors(sug_user) # {} THEN sug_user ELSE sug_response

\* C6, as stated: never more than max_suggestions strings, and exactly
\* max_suggestions whenever the keywords of both texts plus the 3 generic
\* prompts are at least max_suggestions.
C6_AsStated ==
    sug_pc = "done" =>
        /\ Len(sug_out) <= sug_max
        /\ Cardinality(Survivors(sug_user) \cup Survivors(sug_response)) + 3 >= sug_max
               => Len(sug_out) = sug_max

\* C6, amended: for max_suggestions >= 0, never more than max_suggestions
\* strings, and exactly max_suggestions whenever the keywords of the one text
\* used (user_message when it yields a keyword, else response_text) plus the
\* 3 generic prompts are at least max_suggestions.
C6_SuggestionCount ==
    (sug_pc = "done" /\ sug_max >= 0) =>
        LET candidates == Cardinality(Survivors(UsedText)) + 3
        IN  /\ Len(sug_out) <= sug_max
            /\ candidates >= sug_max => Len(sug_out) = sug_max
            /\ Len(sug_out) = Min(sug_max, candidates)

C6_Witness ==
    /\ sug_pc = "done"
    /\ sug_max = 5
    /\ Len(sug_out) = 4
    /\ Survivors(sug_user) # {}
    /\ Survivors(sug_response) \ Survivors(sug_user) # {}

\* Alphabetical order of two lower-case words.
AlphaBefore(a, b) ==
    \E k \in 1..(Len(a) + 1) :
        /\ \A j \in 1..(k - 1) : j <= Len(b) /\ a[j] = b[j]
        /\ \/ k = Len(a) + 1 /\ Len(b) >= k
           \/ /\ k <= Len(a)
              /\ k <= Len(b)
              /\ IndexIn(LowerChars, a[k]) < IndexIn(LowerChars, b[k])

\* The full ranking _extract_keywords computes for a text.
Ranking(text) == extract_keywords(text, Cardinality(Survivors(text)))

\* r lists the surviving tokens of text once each, by descending frequency
\* and, among equals, in ascending alphabetical order.
Ranked(text, r) ==
    LET words == Words(text)
        survivors == FreqKeys(words)
    IN  /\ Len(r) = Cardinality(survivors)
        /\ Range(r) = survivors
        /\ \A i \in 1..Len(r) : \A j \in (i + 1)..Len(r) :
               \/ CountOf(words, r[i]) > CountOf(words, r[j])
               \/ /\ CountOf(words, r[i]) = CountOf(words, r[j])
                  /\ AlphaBefore(r[i], r[j])

\* _extract_keywords returns the top of the ranking r of text.
TopOfRanking(text, r) ==
    \A n \in 0..MaxSuggestions :
        extract_keywords(text, n) = SubSeq(r, 1, Min(n, Len(r)))

C9_SourcePreference ==
    sug_pc = "done" =>
        LET YieldUser == extract_keywords(sug_user, sug_max)
            YieldResponse == extract_keywords(sug_response, sug_max)
        IN
        /\ YieldUser # <<>> =>
               /\ KeywordsOut # {}
               /\ KeywordsOut \subseteq Range(YieldUser)
        /\ YieldUser = <<>> =>
               /\ KeywordsOut \subseteq Range(YieldResponse)
               /\ YieldResponse # <<>> => KeywordsOut # {}
        /\ \/ KeywordsOut \subseteq Survivors(sug_user)
           \/ KeywordsOut \subseteq Survivors(sug_response)
        /\ sug_max >= 1 => (YieldUser = <<>> <=> Survivors(sug_user) = {})
        /\ sug_user = StopwordText =>
               /\ YieldUser = <<>>
               /\ KeywordsOut \subseteq Survivors(sug_response)

C9_Witness ==
    /\ sug_pc = "done"
    /\ sug_user = StopwordText
    /\ sug_max = 3
    /\ sug_response = <<"p", "e", "r", "l">>
    /\ KeywordsOut = {<<"p", "e", "r", "l">>}

====
